---- MODULE Spec2Model ----
(***************************************************************************)
(* A model of the react-tic-tac-toe move engine: the winner checks, the    *)
(* minimax search, the move selection built on it, and the Game component  *)
(* that applies the selected moves.                                        *)
(*                                                                         *)
(* A board is a function from the JavaScript array indices 0..8 to a cell  *)
(* value; the JavaScript value null of a cell is the string "null", and a  *)
(* null move index is nullMove.                                            *)
(***************************************************************************)
EXTENDS Integers, Sequences, FiniteSets, TLC

null == "null"
nullMove == -1
Infinity == 1000
Cells == 0..8
Marks == {"X", "O"}
CellValues == {"X", "O", null}
Other(p) == IF p = "X" THEN "O" ELSE "X"
emptyBoard == [i \in Cells |-> null]

(* board.includes(null) *)
includesNull(board) == \E i \in DOMAIN board : board[i] = null
EmptyCells(board) == {i \in DOMAIN board : board[i] = null}
NumMarks(board) == Cardinality({i \in DOMAIN board : board[i] # null})

(***************************************************************************)
(* App.js: checkWinner, the line table scanned in order.                   *)
(***************************************************************************)
lines == << <<0, 1, 2>>, <<3, 4, 5>>, <<6, 7, 8>>,
            <<0, 3, 6>>, <<1, 4, 7>>, <<2, 5, 8>>,
            <<0, 4, 8>>, <<2, 4, 6>> >>

LineWon(board, k) ==
  /\ board[lines[k][1]] # null
  /\ board[lines[k][1]] = board[lines[k][2]]
  /\ board[lines[k][1]] = board[lines[k][3]]

checkWinner(board) ==
  IF LineWon(board, 1) THEN board[lines[1][1]]
  ELSE IF LineWon(board, 2) THEN board[lines[2][1]]
  ELSE IF LineWon(board, 3) THEN board[lines[3][1]]
  ELSE IF LineWon(board, 4) THEN board[lines[4][1]]
  ELSE IF LineWon(board, 5) THEN board[lines[5][1]]
  ELSE IF LineWon(board, 6) THEN board[lines[6][1]]
  ELSE IF LineWon(board, 7) THEN board[lines[7][1]]
  ELSE IF LineWon(board, 8) THEN board[lines[8][1]]
  ELSE null

(***************************************************************************)
(* App.js: minimax.  The two for-loops fold Math.max / Math.min over the   *)
(* scores of the empty cells, starting from -Infinity / +Infinity.         *)
(***************************************************************************)
SetMax(S) == CHOOSE m \in S : \A n \in S : n <= m
SetMin(S) == CHOOSE m \in S : \A n \in S : m <= n

RECURSIVE minimax(_, _, _)
minimaxScores(board, depth, isMaximizing) ==
  { minimax([board EXCEPT ![i] = IF isMaximizing THEN "X" ELSE "O"],
            depth + 1, ~isMaximizing) : i \in EmptyCells(board) }

(* minimaxOf with Math.max and Math.min exchanged *)
minimaxOfSwapped(board, depth, isMaximizing, winner) ==
  IF winner = "X" THEN 10
  ELSE IF winner = "O" THEN -10
  ELSE IF ~includesNull(board) THEN 0
  ELSE IF isMaximizing
       THEN SetMin({Infinity} \cup minimaxScores(board, depth, isMaximizing))
       ELSE SetMax({-Infinity} \cup minimaxScores(board, depth, isMaximizing))

minimaxOf(board, depth, isMaximizing, winner) ==
  IF winner = "X" THEN 10
  ELSE IF winner = "O" THEN -10
  ELSE IF ~includesNull(board) THEN 0
  ELSE IF isMaximizing
       THEN SetMax({-Infinity} \cup minimaxScores(board, depth, isMaximizing))
       ELSE SetMin({Infinity} \cup minimaxScores(board, depth, isMaximizing))

minimax(board, depth, isMaximizing) ==
  minimaxOf(board, depth, isMaximizing, checkWinner(board))

(***************************************************************************)
(* App.js: findBestMove.  The loop visits the cells in ascending order and *)
(* replaces bestMove only on a strictly better score.  The flag handed to  *)
(* minimax is (currentPlayer === "X"), as in the source.                   *)
(***************************************************************************)
trialScore(board, currentPlayer, i) ==
  minimax([board EXCEPT ![i] = currentPlayer], 0, currentPlayer = "X")

(* isBetter with the comparison made non-strict: a later tie replaces bestMove *)
isBetterOrEqual(currentPlayer, score, bestVal) ==
  IF currentPlayer = "X" THEN score >= bestVal ELSE score <= bestVal

isBetter(currentPlayer, score, bestVal) ==
  IF currentPlayer = "X" THEN score > bestVal ELSE score < bestVal

RECURSIVE findBestMoveLoop(_, _, _, _, _)
findBestMoveStep(board, currentPlayer, i, bestVal, bestMove, score) ==
  IF isBetter(currentPlayer, score, bestVal)
  THEN findBestMoveLoop(board, currentPlayer, i + 1, score, i)
  ELSE findBestMoveLoop(board, currentPlayer, i + 1, bestVal, bestMove)

(* findBestMoveLoop without the test (!board[i]): occupied cells are tried too *)
findBestMoveLoopAllCells(board, currentPlayer, i, bestVal, bestMove) ==
  IF i \notin DOMAIN board THEN bestMove
  ELSE findBestMoveStep(board, currentPlayer, i, bestVal, bestMove,
                        trialScore(board, currentPlayer, i))

findBestMoveLoop(board, currentPlayer, i, bestVal, bestMove) ==
  IF i \notin DOMAIN board THEN bestMove
  ELSE IF board[i] = null
       THEN findBestMoveStep(board, currentPlayer, i, bestVal, bestMove,
                             trialScore(board, currentPlayer, i))
       ELSE findBestMoveLoop(board, currentPlayer, i + 1, bestVal, bestMove)

findBestMove(board, currentPlayer) ==
  findBestMoveLoop(board, currentPlayer, 0,
                   IF currentPlayer = "X" THEN -Infinity ELSE Infinity,
                   nullMove)

(***************************************************************************)
(* App.js: calculateWinner.  The board is joined into a 9-character string *)
(* ("-" for null) and matched against an anchored regular expression with  *)
(* four alternatives, tried in order; the greedy {0,2} prefixes try the    *)
(* largest offset first.  reLines lists the index triples in that order.   *)
(***************************************************************************)
boardString(squares) ==
  [i \in DOMAIN squares |-> IF squares[i] # null THEN squares[i] ELSE "-"]

reLines == << <<6, 7, 8>>, <<3, 4, 5>>, <<0, 1, 2>>,
              <<2, 5, 8>>, <<1, 4, 7>>, <<0, 3, 6>>,
              <<0, 4, 8>>, <<2, 4, 6>> >>

(* reMatch without the fourth alternative ..([OX]).\4.\4 of the expression *)
reMatchNoFourth(str, k) ==
  /\ k # 8
  /\ str[reLines[k][1]] \in {"O", "X"}
  /\ str[reLines[k][2]] = str[reLines[k][1]]
  /\ str[reLines[k][3]] = str[reLines[k][1]]

reMatch(str, k) ==
  /\ str[reLines[k][1]] \in {"O", "X"}
  /\ str[reLines[k][2]] = str[reLines[k][1]]
  /\ str[reLines[k][3]] = str[reLines[k][1]]

reExec(str) ==
  IF \E k \in 1..Len(reLines) : reMatch(str, k)
  THEN str[reLines[CHOOSE k \in 1..Len(reLines) :
                     /\ reMatch(str, k)
                     /\ \A j \in 1..(k - 1) : ~reMatch(str, j)][1]]
  ELSE null

calculateWinner(squares) == reExec(boardString(squares))

(***************************************************************************)
(* The heuristic variant: winningMove returns the first empty cell, in     *)
(* ascending order, whose filling makes calculateWinner report the player; *)
(* findBestMove(squares) tries a win for O, then a block of X, then the    *)
(* fixed order moveOrder.                                                  *)
(***************************************************************************)
RECURSIVE winningMoveLoop(_, _, _)
winningMoveLoop(sq, player, i) ==
  IF i \notin DOMAIN sq THEN nullMove
  ELSE IF sq[i] = null /\ calculateWinner([sq EXCEPT ![i] = player]) = player
       THEN i
       ELSE winningMoveLoop(sq, player, i + 1)

winningMove(sq, player) == winningMoveLoop(sq, player, 0)

moveOrder == <<4, 0, 2, 6, 8, 1, 3, 5, 7>>

RECURSIVE firstInOrder(_, _)
firstInOrder(sq, n) ==
  IF n > Len(moveOrder) THEN nullMove
  ELSE IF sq[moveOrder[n]] = null THEN moveOrder[n]
  ELSE firstInOrder(sq, n + 1)

(* findBestMoveHeuristic with the block of X tried before the win of O *)
findBestMoveHeuristicBlockFirst(sq) ==
  IF winningMove(sq, "X") # nullMove THEN winningMove(sq, "X")
  ELSE IF winningMove(sq, "O") # nullMove THEN winningMove(sq, "O")
  ELSE firstInOrder(sq, 1)

findBestMoveHeuristic(sq) ==
  IF winningMove(sq, "O") # nullMove THEN winningMove(sq, "O")
  ELSE IF winningMove(sq, "X") # nullMove THEN winningMove(sq, "X")
  ELSE firstInOrder(sq, 1)

(***************************************************************************)
(* App.js: the Game component.  squares is history[currentMove]; timer     *)
(* holds the board that a pending setTimeout callback will hand to         *)
(* handlePlay.  engineOnly[p] is a history variable: every mark of p on    *)
(* the current board was placed by a computer move.                        *)
(*                                                                         *)
(* Every handler is followed by the re-render and by the auto-play effect  *)
(* that the change of xIsNext, currentSquares or humanPlayer triggers.     *)
(* This specification follows one game: the swap button is pressed only   *)
(* while no computer move is pending, and the reset button and the move    *)
(* list (jumpTo) are not used.                                             *)
(***************************************************************************)
VARIABLES squares, currentMove, humanPlayer, timer, engineOnly,
          callArgs, callResult,
          searchArgs, searchBoard, stack, retval,
          rows, cols,
          history, engineTable

gameVars == <<squares, currentMove, humanPlayer, timer, engineOnly>>
callVars == <<callArgs, callResult>>
searchVars == <<searchArgs, searchBoard, stack, retval>>
sizeVars == <<rows, cols>>
vars == <<squares, currentMove, humanPlayer, timer, engineOnly,
          callArgs, callResult,
          searchArgs, searchBoard, stack, retval,
          rows, cols,
          history, engineTable>>

xIsNext(move) == move % 2 = 0
currentPlayerAt(move) == IF xIsNext(move) THEN "X" ELSE "O"

scheduleMove(sq, side, bestIndex) ==
  IF bestIndex # nullMove THEN << [sq EXCEPT ![bestIndex] = side] >> ELSE << >>

autoPlayEffect(sq, move, human) ==
  IF calculateWinner(sq) # null \/ ~includesNull(sq) THEN << >>
  ELSE IF xIsNext(move) /\ human # "X"
       THEN scheduleMove(sq, "X", findBestMove(sq, "X"))
  ELSE IF ~xIsNext(move) /\ human # "O"
       THEN scheduleMove(sq, "O", findBestMove(sq, "O"))
  ELSE << >>

(* handlePlay(nextSquares), then the effect *)
handlePlay(nextSquares) ==
  /\ history' = SubSeq(history, 1, currentMove + 1) \o << nextSquares >>
  /\ squares' = nextSquares
  /\ currentMove' = currentMove + 1
  /\ timer' = autoPlayEffect(nextSquares, currentMove + 1, humanPlayer)

(* handleClick without the test (humanPlayer === currentPlayer) *)
handleClickAnySide(i) ==
  /\ checkWinner(squares) = null
  /\ squares[i] = null
  /\ handlePlay([squares EXCEPT ![i] = currentPlayerAt(currentMove)])
  /\ engineOnly' = [engineOnly EXCEPT ![currentPlayerAt(currentMove)] = FALSE]
  /\ UNCHANGED <<humanPlayer, callVars, searchVars, sizeVars, engineTable>>

(* Board.handleClick(i) *)
handleClick(i) ==
  /\ checkWinner(squares) = null
  /\ squares[i] = null
  /\ humanPlayer = currentPlayerAt(currentMove)
  /\ handlePlay([squares EXCEPT ![i] = currentPlayerAt(currentMove)])
  /\ engineOnly' = [engineOnly EXCEPT ![currentPlayerAt(currentMove)] = FALSE]
  /\ UNCHANGED <<humanPlayer, callVars, searchVars, sizeVars, engineTable>>

(* the setTimeout callback: handlePlay(squaresCopy) *)
timerFires ==
  /\ timer # << >>
  /\ handlePlay(timer[1])
  /\ UNCHANGED <<humanPlayer, engineOnly, callVars, searchVars, sizeVars,
                 engineTable>>

handleSwapPlayers ==
  /\ timer = << >>
  /\ humanPlayer' = Other(humanPlayer)
  /\ timer' = autoPlayEffect(squares, currentMove, Other(humanPlayer))
  /\ UNCHANGED <<squares, currentMove, engineOnly, callVars, searchVars,
                 sizeVars, history, engineTable>>

GameInit ==
  /\ squares = emptyBoard
  /\ currentMove = 0
  /\ humanPlayer = "X"
  /\ timer = << >>
  /\ engineOnly = [p \in Marks |-> TRUE]
  /\ history = << emptyBoard >>

CallIdle ==
  /\ callArgs = [board |-> emptyBoard, player |-> "X"]
  /\ callResult = [fn |-> "none", value |-> 0]

SearchIdle ==
  /\ searchArgs = [fn |-> "none", board |-> emptyBoard, player |-> "X"]
  /\ searchBoard = emptyBoard
  /\ stack = << >>
  /\ retval = 0

(* the 3x3 board of App.js *)
SizeIdle ==
  /\ rows = 3
  /\ cols = 3

(* no result of findBestMove is kept (see engineMove) *)
TableIdle == engineTable = << >>

Init == GameInit /\ CallIdle /\ SearchIdle /\ SizeIdle /\ TableIdle

Next ==
  \/ \E i \in Cells : handleClick(i)
  \/ timerFires
  \/ handleSwapPlayers

Spec == Init /\ [][Next]_vars

(***************************************************************************)
(* The value of a position under strictly alternating play, written from   *)
(* the rules of the game: +10 when X has three in a row, -10 when O has,   *)
(* 0 on a full board, otherwise the best child value for the side to move. *)
(***************************************************************************)
HasLine(board, mark) ==
  \E k \in 1..Len(lines) : \A n \in 1..3 : board[lines[k][n]] = mark

RECURSIVE RefValue(_, _)
RefValue(board, side) ==
  IF HasLine(board, "X") THEN 10
  ELSE IF HasLine(board, "O") THEN -10
  ELSE IF EmptyCells(board) = {} THEN 0
  ELSE IF side = "X"
       THEN SetMax({ RefValue([board EXCEPT ![i] = "X"], "O") : i \in EmptyCells(board) })
       ELSE SetMin({ RefValue([board EXCEPT ![i] = "O"], "X") : i \in EmptyCells(board) })

(***************************************************************************)
(* C1.  The move findBestMove returns for the side to move is optimal: the *)
(* reference value of the position after the move equals the reference     *)
(* value of the position before it.  While a computer move is pending,     *)
(* timer[1] is squares with the returned move applied.                     *)
(***************************************************************************)
C1_BestMoveIsOptimal ==
  timer # << >> =>
    RefValue(timer[1], Other(currentPlayerAt(currentMove)))
      = RefValue(squares, currentPlayerAt(currentMove))

(***************************************************************************)
(* C2.  A side whose every move was a result of findBestMove never loses:  *)
(* the opponent never has three in a row.                                  *)
(***************************************************************************)
C2_EngineNeverLoses ==
  \A p \in Marks : engineOnly[p] => ~HasLine(squares, Other(p))

(***************************************************************************)
(* C3.  When findBestMove plays both sides from the empty board, no board  *)
(* of the game has three in a row of either mark, so that the game ends on *)
(* a full board without a winning line.                                    *)
(***************************************************************************)
C3_SelfPlayEndsInDraw ==
  (engineOnly["X"] /\ engineOnly["O"]) =>
    /\ ~HasLine(squares, "X")
    /\ ~HasLine(squares, "O")
    /\ (timer = << >> /\ humanPlayer # currentPlayerAt(currentMove)
          => ~includesNull(squares))

(***************************************************************************)
(* C7.  As stated: findBestMove for X on the empty board returns index 4.  *)
(***************************************************************************)
C7_EmptyBoardMoveIsCentre ==
  (timer # << >> /\ squares = emptyBoard) => timer[1][4] = "X"

(* C7, amended: findBestMove for X on the empty board returns index 0, the *)
(* first cell in ascending order, since every trial score is the same.     *)
C7_EmptyBoardMoveIsFirstCell ==
  (timer # << >> /\ squares = emptyBoard) =>
    timer[1] = [emptyBoard EXCEPT ![0] = "X"]

C7_Witness ==
  timer # << >> /\ squares = emptyBoard /\ humanPlayer = "O"

(***************************************************************************)
(* Calls of the engine's functions on given arguments.  The boards are all *)
(* boards over {X, O, null} with at most MaxCallEmpty empty cells, and the *)
(* board  X . . / X . . / . . .  of the specification's example.           *)
(***************************************************************************)
MaxCallEmpty == 4

exampleBoard == [i \in Cells |-> IF i \in {0, 3} THEN "X" ELSE null]

CallBoards ==
  {b \in [Cells -> CellValues] : Cardinality(EmptyCells(b)) <= MaxCallEmpty}
    \cup {exampleBoard}

callFindBestMove ==
  /\ callResult.fn = "none"
  /\ callResult' = [fn |-> "findBestMove",
                    value |-> findBestMove(callArgs.board, callArgs.player)]
  /\ UNCHANGED <<callArgs, gameVars, searchVars, sizeVars, history, engineTable>>

callMinimax ==
  /\ callResult.fn = "none"
  /\ callResult' = [fn |-> "minimax",
                    value |-> minimax(callArgs.board, 0, callArgs.player = "X")]
  /\ UNCHANGED <<callArgs, gameVars, searchVars, sizeVars, history, engineTable>>

callFindBestMoveHeuristic ==
  /\ callResult.fn = "none"
  /\ callArgs.player = "O"
  /\ callResult' = [fn |-> "findBestMoveHeuristic",
                    value |-> findBestMoveHeuristic(callArgs.board)]
  /\ UNCHANGED <<callArgs, gameVars, searchVars, sizeVars, history, engineTable>>

CallInit ==
  /\ callArgs \in [board : CallBoards, player : Marks]
  /\ callResult = [fn |-> "none", value |-> 0]
  /\ GameInit
  /\ TableIdle
  /\ SearchIdle
  /\ SizeIdle

CallNext ==
  \/ callFindBestMove
  \/ callMinimax
  \/ callFindBestMoveHeuristic

CallSpec == CallInit /\ [][CallNext]_vars

InProgress(board) ==
  ~HasLine(board, "X") /\ ~HasLine(board, "O") /\ EmptyCells(board) # {}

C6_FirstExtremalCell ==
  (callResult.fn = "findBestMove" /\ callResult.value # nullMove) =>
    /\ callResult.value \in EmptyCells(callArgs.board)
    /\ \A j \in EmptyCells(callArgs.board) :
         /\ ~isBetter(callArgs.player,
                      trialScore(callArgs.board, callArgs.player, j),
                      trialScore(callArgs.board, callArgs.player, callResult.value))
         /\ j < callResult.value =>
              isBetter(callArgs.player,
                       trialScore(callArgs.board, callArgs.player, callResult.value),
                       trialScore(callArgs.board, callArgs.player, j))

C6_Witness ==
  /\ callResult.fn = "findBestMove"
  /\ callResult.value # nullMove
  /\ \E j \in EmptyCells(callArgs.board) :
       /\ j > callResult.value
       /\ trialScore(callArgs.board, callArgs.player, j)
            = trialScore(callArgs.board, callArgs.player, callResult.value)
  /\ \E j \in EmptyCells(callArgs.board) :
       /\ j < callResult.value
       /\ trialScore(callArgs.board, callArgs.player, j)
            # trialScore(callArgs.board, callArgs.player, callResult.value)

(***************************************************************************)
(* C8.  As stated: on the board with X at 0 and 3 only, findBestMove for X *)
(* returns 6.                                                              *)
(***************************************************************************)
C8_ExampleMoveCompletesColumn ==
  (callResult.fn = "findBestMove" /\ callArgs.board = exampleBoard
     /\ callArgs.player = "X") => callResult.value = 6

(* C8, amended: on that board findBestMove for X returns 1, the first      *)
(* empty cell, whose trial score is already the maximum +10.               *)
C8_ExampleMoveIsFirstEmptyCell ==
  (callResult.fn = "findBestMove" /\ callArgs.board = exampleBoard
     /\ callArgs.player = "X") =>
    /\ callResult.value = 1
    /\ trialScore(exampleBoard, "X", 1) = 10

C8_Witness ==
  /\ callResult.fn = "findBestMove"
  /\ callArgs.board = exampleBoard
  /\ callArgs.player = "X"

(***************************************************************************)
(* C9.  As stated, on the positions of a game with O to move: when O holds *)
(* two cells of a line whose third cell is empty, findBestMove for O       *)
(* returns the empty third cell of such a line.                            *)
(***************************************************************************)
CompletingCells(board, mark) ==
  {i \in EmptyCells(board) :
     \E k \in 1..Len(lines) :
       /\ \E n \in 1..3 : lines[k][n] = i
       /\ \A n \in 1..3 : lines[k][n] # i => board[lines[k][n]] = mark}

NumOf(board, mark) == Cardinality({i \in DOMAIN board : board[i] = mark})

C10_ReturnedCellIsEmpty ==
  (callResult.fn \in {"findBestMove", "findBestMoveHeuristic"}
     /\ callResult.value # nullMove) =>
    /\ callResult.value \in DOMAIN callArgs.board
    /\ callArgs.board[callResult.value] = null

C10_Witness ==
  /\ callResult.fn = "findBestMoveHeuristic"
  /\ callResult.value # nullMove
  /\ \E j \in DOMAIN callArgs.board :
       j < callResult.value /\ callArgs.board[j] # null
  /\ callArgs.board[4] # null

(***************************************************************************)
(* The resizable variants (part_000, part_002).  A board of length n is a  *)
(* function on 0..n-1, row-major: index = r * cols + c.  Reading an array  *)
(* index that does not exist gives the JavaScript value undefined.         *)
(*                                                                         *)
(* checkGenericWinner of part_000 returns null at once when board.length   *)
(* differs from rows * cols and its getCell checks the index; the one of   *)
(* part_002 has neither test.  The parameter checked of the shared         *)
(* definitions selects part_000 (TRUE) or part_002 (FALSE).                *)
(***************************************************************************)
undefined == "undefined"
(* Math.min with the run length 1 of a one-row or one-column board raised   *)
(* to 2                                                                    *)
MinAtLeastTwo(a, b) ==
  IF a < b THEN (IF a = 1 THEN 2 ELSE a) ELSE (IF b = 1 THEN 2 ELSE b)

Min(a, b) == IF a < b THEN a ELSE b
length(board) == Cardinality(DOMAIN board)
emptyGrid(n) == [i \in 0..(n - 1) |-> null]

getCell(board, rows_, cols_, r, c) ==
  IF r < 0 \/ r >= rows_ \/ c < 0 \/ c >= cols_ THEN null
  ELSE IF r * cols_ + c \notin DOMAIN board THEN null
  ELSE board[r * cols_ + c]

getCell002(board, rows_, cols_, r, c) ==
  IF r < 0 \/ r >= rows_ \/ c < 0 \/ c >= cols_ THEN null
  ELSE IF r * cols_ + c \in DOMAIN board THEN board[r * cols_ + c]
  ELSE undefined

(* cellAt without the tests of r and c against rows and cols: the cell is  *)
(* read at r * cols + c whenever that index exists                         *)
cellAtIndexOnly(board, rows_, cols_, checked, r, c) ==
  IF r * cols_ + c \in DOMAIN board THEN board[r * cols_ + c]
  ELSE IF checked THEN null ELSE undefined

cellAt(board, rows_, cols_, checked, r, c) ==
  IF checked THEN getCell(board, rows_, cols_, r, c)
  ELSE getCell002(board, rows_, cols_, r, c)

(* the steps (dr, dc) of the four counting loops, in the order of the code *)
directions == << <<0, 1>>, <<1, 0>>, <<1, 1>>, <<-1, 1>> >>

(* runFrom without the fourth loop (diagonal up-right) *)
runFromNoUpRight(board, rows_, cols_, checked, r, c, d) ==
  /\ d # 4
  /\ \A offset \in 1..(Min(rows_, cols_) - 1) :
       cellAt(board, rows_, cols_, checked,
              r + offset * directions[d][1], c + offset * directions[d][2])
         = cellAt(board, rows_, cols_, checked, r, c)

(* count === K after a counting loop: the loop breaks at the first cell    *)
(* that differs from symbol, so count reaches K exactly when the cells at  *)
(* all offsets 1..K-1 equal symbol                                         *)
runFrom(board, rows_, cols_, checked, r, c, d) ==
  \A offset \in 1..(Min(rows_, cols_) - 1) :
    cellAt(board, rows_, cols_, checked,
           r + offset * directions[d][1], c + offset * directions[d][2])
      = cellAt(board, rows_, cols_, checked, r, c)

(* the nested loops over r and c, from cell p = r * cols + c on *)
RECURSIVE scanFrom(_, _, _, _, _)
scanFrom(board, rows_, cols_, checked, p) ==
  IF rows_ <= 0 \/ cols_ <= 0 \/ p >= rows_ * cols_ THEN null
  ELSE IF cellAt(board, rows_, cols_, checked, p \div cols_, p % cols_)
            \notin Marks
       THEN scanFrom(board, rows_, cols_, checked, p + 1)
  ELSE IF \E d \in 1..Len(directions) :
            runFrom(board, rows_, cols_, checked, p \div cols_, p % cols_, d)
       THEN cellAt(board, rows_, cols_, checked, p \div cols_, p % cols_)
  ELSE scanFrom(board, rows_, cols_, checked, p + 1)

(* part_000 *)
checkGenericWinner(board, rows_, cols_) ==
  IF length(board) # rows_ * cols_ THEN null
  ELSE scanFrom(board, rows_, cols_, TRUE, 0)

(* part_002 *)
checkGenericWinner002(board, rows_, cols_) ==
  scanFrom(board, rows_, cols_, FALSE, 0)

winnerOf(board, rows_, cols_, checked) ==
  IF checked THEN checkGenericWinner(board, rows_, cols_)
  ELSE checkGenericWinner002(board, rows_, cols_)

(* status with the test of the full board made before the test of winner *)
statusDrawFirst(board, winner, xNext) ==
  IF ~includesNull(board) THEN <<"Game ended in a draw">>
  ELSE IF winner \in Marks THEN <<"Winner: ", winner>>
  ELSE <<"Next player: ", IF xNext THEN "X" ELSE "O">>

(* Board: the status line *)
status(board, winner, xNext) ==
  IF winner \in Marks THEN <<"Winner: ", winner>>
  ELSE IF ~includesNull(board) THEN <<"Game ended in a draw">>
  ELSE <<"Next player: ", IF xNext THEN "X" ELSE "O">>

(***************************************************************************)
(* minimax and findBestMove of the resizable variants: those of App.js     *)
(* with checkGenericWinner(board, rows, cols) as the winner test.          *)
(***************************************************************************)
RECURSIVE minimaxGeneric(_, _, _, _, _, _)
minimaxGenericScores(board, rows_, cols_, depth, isMaximizing, checked) ==
  { minimaxGeneric([board EXCEPT ![i] = IF isMaximizing THEN "X" ELSE "O"],
                   rows_, cols_, depth + 1, ~isMaximizing, checked) :
      i \in EmptyCells(board) }

minimaxGenericOf(board, rows_, cols_, depth, isMaximizing, checked, winner) ==
  IF winner = "X" THEN 10
  ELSE IF winner = "O" THEN -10
  ELSE IF ~includesNull(board) THEN 0
  ELSE IF isMaximizing
       THEN SetMax({-Infinity} \cup
              minimaxGenericScores(board, rows_, cols_, depth, isMaximizing, checked))
       ELSE SetMin({Infinity} \cup
              minimaxGenericScores(board, rows_, cols_, depth, isMaximizing, checked))

minimaxGeneric(board, rows_, cols_, depth, isMaximizing, checked) ==
  minimaxGenericOf(board, rows_, cols_, depth, isMaximizing, checked,
                   winnerOf(board, rows_, cols_, checked))

trialScoreGeneric(board, rows_, cols_, currentPlayer, checked, i) ==
  minimaxGeneric([board EXCEPT ![i] = currentPlayer], rows_, cols_, 0,
                 currentPlayer = "X", checked)

RECURSIVE findBestMoveGenericLoop(_, _, _, _, _, _, _, _)
findBestMoveGenericStep(board, rows_, cols_, currentPlayer, checked, i, bestVal, bestMove, score) ==
  IF isBetter(currentPlayer, score, bestVal)
  THEN findBestMoveGenericLoop(board, rows_, cols_, currentPlayer, checked,
                               i + 1, score, i)
  ELSE findBestMoveGenericLoop(board, rows_, cols_, currentPlayer, checked,
                               i + 1, bestVal, bestMove)

findBestMoveGenericLoop(board, rows_, cols_, currentPlayer, checked, i, bestVal, bestMove) ==
  IF i \notin DOMAIN board THEN bestMove
  ELSE IF board[i] = null
       THEN findBestMoveGenericStep(board, rows_, cols_, currentPlayer, checked,
              i, bestVal, bestMove,
              trialScoreGeneric(board, rows_, cols_, currentPlayer, checked, i))
       ELSE findBestMoveGenericLoop(board, rows_, cols_, currentPlayer, checked,
                                    i + 1, bestVal, bestMove)

findBestMoveGeneric(board, rows_, cols_, currentPlayer, checked) ==
  findBestMoveGenericLoop(board, rows_, cols_, currentPlayer, checked, 0,
                          IF currentPlayer = "X" THEN -Infinity ELSE Infinity,
                          nullMove)

(* part_002: one of the reads board[r * cols + c] made by the scan from    *)
(* cell p on is a read outside the array.  The cells hold "X", "O" or      *)
(* null, so getCell002 gives undefined only for such a read.  The scan     *)
(* stops at the first complete run, a counting loop at the first cell that *)
(* differs from symbol.                                                    *)
probesOutside(board, rows_, cols_, r, c, d) ==
  \E offset \in 1..(Min(rows_, cols_) - 1) :
    /\ \A o \in 1..(offset - 1) :
         getCell002(board, rows_, cols_,
                    r + o * directions[d][1], c + o * directions[d][2])
           = getCell002(board, rows_, cols_, r, c)
    /\ getCell002(board, rows_, cols_, r + offset * directions[d][1],
                  c + offset * directions[d][2]) = undefined

RECURSIVE readsOutsideFrom(_, _, _, _)
readsOutsideFrom(board, rows_, cols_, p) ==
  IF rows_ <= 0 \/ cols_ <= 0 \/ p >= rows_ * cols_ THEN FALSE
  ELSE IF getCell002(board, rows_, cols_, p \div cols_, p % cols_) = undefined
       THEN TRUE
  ELSE IF getCell002(board, rows_, cols_, p \div cols_, p % cols_) = null
       THEN readsOutsideFrom(board, rows_, cols_, p + 1)
  ELSE IF \E d \in 1..Len(directions) :
            /\ probesOutside(board, rows_, cols_, p \div cols_, p % cols_, d)
            /\ \A e \in 1..(d - 1) :
                 ~runFrom(board, rows_, cols_, FALSE, p \div cols_, p % cols_, e)
       THEN TRUE
  ELSE IF \E d \in 1..Len(directions) :
            runFrom(board, rows_, cols_, FALSE, p \div cols_, p % cols_, d)
       THEN FALSE
  ELSE readsOutsideFrom(board, rows_, cols_, p + 1)

(***************************************************************************)
(* The search step by step.  searchBoard is the one array that             *)
(* findBestMove and every minimax call below it write to; stack holds the  *)
(* active calls, the innermost last; retval is the value of the last       *)
(* return.  A frame is at "enter" (minimax before its winner test), at     *)
(* "loop" (about to look at cell i) or at "waiting" (cell i holds a trial  *)
(* mark and the call made for it has not been consumed).  Iterations over  *)
(* occupied cells change nothing and are folded into the next step.        *)
(*                                                                         *)
(* The calls are the ones the Game makes: an in-progress position of a     *)
(* game with at most MaxSearchEmpty empty cells, for the side to move.     *)
(*                                                                         *)
(* winningMove of the heuristic variant is a call of its own on the same   *)
(* array: its frame is at "loop" or at "placed" (cell i holds the trial    *)
(* mark and calculateWinner has not been asked yet).                       *)
(*                                                                         *)
(* findBestMove of part_000 is the same code with                          *)
(* checkGenericWinner(board, rows, cols) as the winner test of minimax; it *)
(* is called (fn "findBestMove000") for the side to move on every         *)
(* rows x cols board, rows and cols at most MaxSide with at most           *)
(* MaxSearchCells cells, that has at most MaxGridEmpty empty cells and     *)
(* as many X as O or one X more, decided or not.                           *)
(***************************************************************************)
MaxSearchEmpty == 3
MaxSearchCells == 9
MaxGridEmpty == 2
MaxSide == 3

SearchSizes ==
  {sz \in (1..MaxSide) \X (1..MaxSide) : sz[1] * sz[2] <= MaxSearchCells}

SearchGrids(n) ==
  {b \in [0..(n - 1) -> CellValues] :
     /\ Cardinality(EmptyCells(b)) <= MaxGridEmpty
     /\ NumOf(b, "X") - NumOf(b, "O") \in {0, 1}}

SearchBoards ==
  {b \in [Cells -> CellValues] :
     /\ Cardinality(EmptyCells(b)) <= MaxSearchEmpty
     /\ NumOf(b, "X") - NumOf(b, "O") \in {0, 1}
     /\ InProgress(b)}

sideToMove(board) == currentPlayerAt(NumMarks(board))

top == stack[Len(stack)]

nextEmpty(board, i) ==
  IF \E j \in EmptyCells(board) : j >= i
  THEN CHOOSE j \in EmptyCells(board) :
         j >= i /\ \A n \in EmptyCells(board) : n >= i => j <= n
  ELSE Cardinality(DOMAIN board)

placedMark(frame) ==
  IF frame.fn \in {"findBestMove", "winningMove"} THEN frame.currentPlayer
  ELSE IF frame.isMaximizing THEN "X" ELSE "O"

(* the isMaximizing argument of the call made for a trial placement *)
calleeFlag(frame) ==
  IF frame.fn = "findBestMove" THEN frame.currentPlayer = "X"
  ELSE ~frame.isMaximizing

minimaxFrame(depth, isMaximizing) ==
  [fn |-> "minimax", currentPlayer |-> null, isMaximizing |-> isMaximizing,
   depth |-> depth, i |-> 0, best |-> 0, bestMove |-> nullMove, pc |-> "enter"]

findBestMoveFrame(currentPlayer) ==
  [fn |-> "findBestMove", currentPlayer |-> currentPlayer,
   isMaximizing |-> FALSE, depth |-> 0, i |-> 0,
   best |-> IF currentPlayer = "X" THEN -Infinity ELSE Infinity,
   bestMove |-> nullMove, pc |-> "loop"]

winningMoveFrame(player) ==
  [fn |-> "winningMove", currentPlayer |-> player,
   isMaximizing |-> FALSE, depth |-> 0, i |-> 0, best |-> 0,
   bestMove |-> nullMove, pc |-> "loop"]

(* the assignment that reverts a trial placement, left out *)
undoSkipped(board, i) == board

(* board[i] = null *)
undo(board, i) == [board EXCEPT ![i] = null]

popWith(value) ==
  /\ stack' = SubSeq(stack, 1, Len(stack) - 1)
  /\ retval' = value

(* const winner = checkWinner(board), or checkGenericWinner(board, rows,   *)
(* cols) in part_000                                                       *)
searchWinner ==
  IF searchArgs.fn = "findBestMove000"
  THEN checkGenericWinner(searchBoard, rows, cols)
  ELSE checkWinner(searchBoard)

(* minimax, lines 39-49 and the initialisation of bestScore *)
searchEnter ==
  /\ stack # << >>
  /\ top.pc = "enter"
  /\ IF searchWinner = "X" THEN popWith(10)
     ELSE IF searchWinner = "O" THEN popWith(-10)
     ELSE IF ~includesNull(searchBoard) THEN popWith(0)
     ELSE /\ stack' = [stack EXCEPT ![Len(stack)] =
                         [@ EXCEPT !.pc = "loop",
                                   !.best = IF top.isMaximizing THEN -Infinity
                                                              ELSE Infinity]]
          /\ UNCHANGED retval
  /\ UNCHANGED <<searchArgs, searchBoard, gameVars, callVars, sizeVars, history,
                 engineTable>>

(* board[i] = mark; minimax(board, ..., flag) *)
searchTrial ==
  /\ stack # << >>
  /\ top.fn # "winningMove"
  /\ top.pc = "loop"
  /\ nextEmpty(searchBoard, top.i) \in DOMAIN searchBoard
  /\ searchBoard' = [searchBoard EXCEPT
                       ![nextEmpty(searchBoard, top.i)] = placedMark(top)]
  /\ stack' = Append([stack EXCEPT ![Len(stack)] =
                        [@ EXCEPT !.pc = "waiting",
                                  !.i = nextEmpty(searchBoard, top.i)]],
                     minimaxFrame(IF top.fn = "findBestMove" THEN 0
                                  ELSE top.depth + 1,
                                  calleeFlag(top)))
  /\ UNCHANGED <<searchArgs, retval, gameVars, callVars, sizeVars, history,
                 engineTable>>

(* searchUndo without the i++ of the for loop: the same cell is tried again *)
searchUndoNoAdvance ==
  /\ stack # << >>
  /\ top.pc = "waiting"
  /\ searchBoard' = undo(searchBoard, top.i)
  /\ stack' = [stack EXCEPT ![Len(stack)] = [@ EXCEPT !.pc = "loop"]]
  /\ UNCHANGED <<searchArgs, retval, gameVars, callVars, sizeVars, history,
                 engineTable>>

(* board[i] = null, then the update of bestScore or of bestVal/bestMove *)
searchUndo ==
  /\ stack # << >>
  /\ top.pc = "waiting"
  /\ searchBoard' = undo(searchBoard, top.i)
  /\ stack' = [stack EXCEPT ![Len(stack)] =
       IF @.fn = "findBestMove"
       THEN [@ EXCEPT !.pc = "loop", !.i = @ + 1,
               !.best = IF isBetter(top.currentPlayer, retval, top.best)
                        THEN retval ELSE @,
               !.bestMove = IF isBetter(top.currentPlayer, retval, top.best)
                            THEN top.i ELSE @]
       ELSE [@ EXCEPT !.pc = "loop", !.i = @ + 1,
               !.best = IF top.isMaximizing
                        THEN (IF retval > @ THEN retval ELSE @)
                        ELSE (IF retval < @ THEN retval ELSE @)]]
  /\ UNCHANGED <<searchArgs, retval, gameVars, callVars, sizeVars, history,
                 engineTable>>

(* the loop is over: return bestScore, or bestMove *)
searchReturn ==
  /\ stack # << >>
  /\ top.pc = "loop"
  /\ nextEmpty(searchBoard, top.i) \notin DOMAIN searchBoard
  /\ popWith(IF top.fn = "minimax" THEN top.best ELSE top.bestMove)
  /\ UNCHANGED <<searchArgs, searchBoard, gameVars, callVars, sizeVars, history,
                 engineTable>>

(* winningMove: squares[i] = player *)
winningMoveTrial ==
  /\ stack # << >>
  /\ top.fn = "winningMove"
  /\ top.pc = "loop"
  /\ nextEmpty(searchBoard, top.i) \in DOMAIN searchBoard
  /\ searchBoard' = [searchBoard EXCEPT
                       ![nextEmpty(searchBoard, top.i)] = top.currentPlayer]
  /\ stack' = [stack EXCEPT ![Len(stack)] =
                 [@ EXCEPT !.pc = "placed",
                           !.i = nextEmpty(searchBoard, top.i)]]
  /\ UNCHANGED <<searchArgs, retval, gameVars, callVars, sizeVars, history,
                 engineTable>>

(* winningMove: the test of calculateWinner, and squares[i] = null on both *)
(* of its branches                                                         *)
winningMoveRevert ==
  /\ stack # << >>
  /\ top.pc = "placed"
  /\ searchBoard' = undo(searchBoard, top.i)
  /\ IF calculateWinner(searchBoard) = top.currentPlayer
     THEN popWith(top.i)
     ELSE /\ stack' = [stack EXCEPT ![Len(stack)] =
                         [@ EXCEPT !.pc = "loop", !.i = @ + 1]]
          /\ UNCHANGED retval
  /\ UNCHANGED <<searchArgs, gameVars, callVars, sizeVars, history, engineTable>>

SearchInit ==
  /\ searchArgs \in
       {[fn |-> "findBestMove", board |-> b, player |-> sideToMove(b)] :
          b \in SearchBoards}
       \cup [fn : {"winningMove"}, board : SearchBoards, player : Marks]
  /\ searchBoard = searchArgs.board
  /\ stack = << IF searchArgs.fn = "findBestMove"
                THEN findBestMoveFrame(searchArgs.player)
                ELSE winningMoveFrame(searchArgs.player) >>
  /\ retval = 0
  /\ GameInit
  /\ TableIdle
  /\ CallIdle
  /\ SizeIdle

(* a call of findBestMove(board, rows, cols, currentPlayer) of part_000 *)
SearchInit000 ==
  /\ \E sz \in SearchSizes :
       /\ rows = sz[1]
       /\ cols = sz[2]
       /\ searchArgs \in
            {[fn |-> "findBestMove000", board |-> b, player |-> sideToMove(b)] :
               b \in SearchGrids(sz[1] * sz[2])}
  /\ searchBoard = searchArgs.board
  /\ stack = << findBestMoveFrame(searchArgs.player) >>
  /\ retval = 0
  /\ GameInit
  /\ TableIdle
  /\ CallIdle

SearchNext ==
  \/ searchEnter
  \/ searchTrial
  \/ searchUndo
  \/ searchReturn
  \/ winningMoveTrial
  \/ winningMoveRevert

SearchSpec == (SearchInit \/ SearchInit000) /\ [][SearchNext]_vars

(* The step-by-step calls return what the operators findBestMove and       *)
(* winningMove return.                                                     *)
SearchAgreesWithFindBestMove ==
  stack = << >> =>
    retval = IF searchArgs.fn = "findBestMove"
             THEN findBestMove(searchArgs.board, searchArgs.player)
             ELSE IF searchArgs.fn = "findBestMove000"
             THEN findBestMoveGeneric(searchArgs.board, rows, cols,
                                      searchArgs.player, TRUE)
             ELSE winningMove(searchArgs.board, searchArgs.player)

(***************************************************************************)
(* C4.  At every node of the search, the call made for a trial placement   *)
(* evaluates the position with the opposite side to move (after a trial X  *)
(* the callee minimises, after a trial O it maximises), and the only cells *)
(* that differ from the board passed in are those of the trials in         *)
(* progress: each is restored before the next candidate is tried.          *)
(***************************************************************************)
C4_TrialEvaluatedForOpponent ==
  /\ \A n \in 1..(Len(stack) - 1) :
       /\ stack[n].pc = "waiting"
       /\ searchBoard[stack[n].i] = placedMark(stack[n])
       /\ stack[n + 1].isMaximizing = (searchBoard[stack[n].i] = "O")
  /\ \A c \in DOMAIN searchBoard :
       searchBoard[c] # searchArgs.board[c] =>
         \E n \in 1..Len(stack) : stack[n].pc = "waiting" /\ stack[n].i = c

(***************************************************************************)
(* C11.  findBestMove returns null exactly when the board passed in has no *)
(* empty cell; on a board with an empty cell it returns a cell index.      *)
(***************************************************************************)
C11_NullIffNoEmptyCell ==
  callResult.fn = "findBestMove" =>
    /\ (callResult.value = nullMove) <=> (EmptyCells(callArgs.board) = {})
    /\ callResult.value # nullMove => callResult.value \in Cells

C11_Witness ==
  /\ callResult.fn = "findBestMove"
  /\ EmptyCells(callArgs.board) = {}
  /\ callResult.value = nullMove

(***************************************************************************)
(* C12.  As stated: findBestMove on a full board, or on a board where a    *)
(* mark already has three in a row, returns null.                          *)
(***************************************************************************)
C12_NoMoveOnDecidedBoard ==
  (/\ callResult.fn = "findBestMove"
   /\ \/ EmptyCells(callArgs.board) = {}
      \/ HasLine(callArgs.board, "X")
      \/ HasLine(callArgs.board, "O")) =>
    callResult.value = nullMove

(* C12, amended: findBestMove returns null on a full board; on a board     *)
(* where a mark already has three in a row and a cell is empty it returns  *)
(* the index of an empty cell.                                             *)
C12_NoMoveOnFullBoardOnly ==
  callResult.fn = "findBestMove" =>
    /\ EmptyCells(callArgs.board) = {} => callResult.value = nullMove
    /\ (/\ EmptyCells(callArgs.board) # {}
        /\ HasLine(callArgs.board, "X") \/ HasLine(callArgs.board, "O")) =>
         callResult.value \in EmptyCells(callArgs.board)

(* X already has the top row; findBestMove for O returns an empty cell *)
C12_Witness ==
  /\ callResult.fn = "findBestMove"
  /\ callArgs.player = "O"
  /\ \A i \in {0, 1, 2} : callArgs.board[i] = "X"
  /\ ~HasLine(callArgs.board, "O")
  /\ callResult.value \in EmptyCells(callArgs.board)

(***************************************************************************)
(* C13.  Every trial placement is undone.  At every point of a call of     *)
(* findBestMove, minimax or winningMove the array differs from the board   *)
(* passed in exactly by the trial marks of the calls in progress, each on  *)
(* a cell that was empty; so when a call returns (its frame is removed)    *)
(* the array is what it was when the call was made, and after the          *)
(* outermost return it is the caller's board, cell for cell.               *)
(***************************************************************************)
TrialFrames(c) ==
  {n \in 1..Len(stack) : stack[n].pc \in {"waiting", "placed"} /\ stack[n].i = c}

C13_TrialsUndone ==
  /\ \A c \in DOMAIN searchBoard :
       IF TrialFrames(c) = {}
       THEN searchBoard[c] = searchArgs.board[c]
       ELSE /\ searchArgs.board[c] = null
            /\ \E n \in TrialFrames(c) :
                 TrialFrames(c) = {n} /\ searchBoard[c] = placedMark(stack[n])
  /\ stack = << >> => searchBoard = searchArgs.board

(* a minimax call two levels down has just returned from its winner test *)
C13_Witness ==
  /\ Len(stack) >= 2
  /\ top.fn = "minimax"
  /\ top.pc = "waiting"
  /\ retval = 10
  /\ checkWinner(searchBoard) = "X"

(***************************************************************************)
(* Calls of the functions of the resizable variants.  The arguments are    *)
(* every board over {X, O, null} of every size rows x cols with at most    *)
(* MaxCells cells and sides of at most MaxSide, and the malformed          *)
(* arguments: a dimension below 1, or a                                    *)
(* board of at most MaxBadLen cells whose length is not rows * cols.       *)
(* minimax and findBestMove are called on the boards with at most          *)
(* MaxGenericEmpty empty cells.                                            *)
(***************************************************************************)
MaxCells == 9
MaxBadDim == 3
MaxBadLen == 4
MaxGenericEmpty == 2

Grid(n) == [0..(n - 1) -> CellValues]

Sizes == {sz \in (1..MaxSide) \X (1..MaxSide) : sz[1] * sz[2] <= MaxCells}

WellFormedArgs ==
  UNION { [board : Grid(sz[1] * sz[2]), rows : {sz[1]}, cols : {sz[2]},
           player : {"X"}] : sz \in Sizes }

MalformedArgs ==
  UNION { {a \in [board : Grid(n), rows : -1..MaxBadDim,
                  cols : -1..MaxBadDim, player : {"X"}] :
             a.rows < 1 \/ a.cols < 1 \/ n # a.rows * a.cols} :
            n \in 0..MaxBadLen }

WellFormed(a) ==
  a.rows >= 1 /\ a.cols >= 1 /\ length(a.board) = a.rows * a.cols

callCheckGenericWinner ==
  /\ callResult.fn = "none"
  /\ callResult' = [fn |-> "checkGenericWinner",
                    value |-> checkGenericWinner(callArgs.board, callArgs.rows,
                                                 callArgs.cols)]
  /\ UNCHANGED <<callArgs, gameVars, searchVars, sizeVars, history, engineTable>>

callCheckGenericWinner002 ==
  /\ callResult.fn = "none"
  /\ callResult' = [fn |-> "checkGenericWinner002",
                    value |-> checkGenericWinner002(callArgs.board, callArgs.rows,
                                                    callArgs.cols)]
  /\ UNCHANGED <<callArgs, gameVars, searchVars, sizeVars, history, engineTable>>

(* the status line Board renders; xIsNext is (moveCount % 2 === 0) *)
callStatus ==
  /\ callResult.fn = "none"
  /\ callResult' = [fn |-> "status",
                    value |-> status(callArgs.board,
                                     checkGenericWinner(callArgs.board,
                                                        callArgs.rows, callArgs.cols),
                                     xIsNext(NumMarks(callArgs.board)))]
  /\ UNCHANGED <<callArgs, gameVars, searchVars, sizeVars, history, engineTable>>

(* the three winner checks of the repository on one 3 x 3 board *)
callWinnerChecks ==
  /\ callResult.fn = "none"
  /\ callArgs.rows = 3
  /\ callArgs.cols = 3
  /\ length(callArgs.board) = 9
  /\ callResult' = [fn |-> "winnerChecks",
                    value |-> [checkWinner |-> checkWinner(callArgs.board),
                               calculateWinner |-> calculateWinner(callArgs.board),
                               checkGenericWinner |->
                                 checkGenericWinner(callArgs.board, 3, 3),
                               checkGenericWinner002 |->
                                 checkGenericWinner002(callArgs.board, 3, 3)]]
  /\ UNCHANGED <<callArgs, gameVars, searchVars, sizeVars, history, engineTable>>

callMinimaxGeneric ==
  /\ callResult.fn = "none"
  /\ Cardinality(EmptyCells(callArgs.board)) <= MaxGenericEmpty
  /\ \E p \in Marks, checked \in BOOLEAN :
       /\ callArgs' = [callArgs EXCEPT !.player = p]
       /\ callResult' = [fn |-> IF checked THEN "minimax" ELSE "minimax002",
                         value |-> minimaxGeneric(callArgs.board, callArgs.rows,
                                                  callArgs.cols, 0, p = "X",
                                                  checked)]
  /\ UNCHANGED <<gameVars, searchVars, sizeVars, history, engineTable>>

callFindBestMoveGeneric ==
  /\ callResult.fn = "none"
  /\ Cardinality(EmptyCells(callArgs.board)) <= MaxGenericEmpty
  /\ \E p \in Marks, checked \in BOOLEAN :
       /\ callArgs' = [callArgs EXCEPT !.player = p]
       /\ callResult' = [fn |-> IF checked THEN "findBestMove"
                                ELSE "findBestMove002",
                         value |-> findBestMoveGeneric(callArgs.board,
                                     callArgs.rows, callArgs.cols, p, checked)]
  /\ UNCHANGED <<gameVars, searchVars, sizeVars, history, engineTable>>

DetectInit ==
  /\ callArgs \in WellFormedArgs \cup MalformedArgs
  /\ callResult = [fn |-> "none", value |-> 0]
  /\ GameInit
  /\ TableIdle
  /\ SearchIdle
  /\ SizeIdle

DetectNext ==
  \/ callCheckGenericWinner
  \/ callCheckGenericWinner002
  \/ callStatus
  \/ callWinnerChecks
  \/ callMinimaxGeneric
  \/ callFindBestMoveGeneric

DetectSpec == DetectInit /\ [][DetectNext]_vars

(***************************************************************************)
(* A run, written from the rule of the game: K = min(rows, cols) cells of  *)
(* the grid in a straight line (a row, a column or one of the two          *)
(* diagonals), consecutive, all holding the mark.                          *)
(***************************************************************************)
lineSteps == { <<0, 1>>, <<1, 0>>, <<1, 1>>, <<1, -1>> }

HasRun(board, rows_, cols_, mark) ==
  \E r \in 0..(rows_ - 1), c \in 0..(cols_ - 1), st \in lineSteps :
    \A o \in 0..(Min(rows_, cols_) - 1) :
      /\ r + o * st[1] \in 0..(rows_ - 1)
      /\ c + o * st[2] \in 0..(cols_ - 1)
      /\ board[(r + o * st[1]) * cols_ + c + o * st[2]] = mark

IsDetectorCall == callResult.fn \in {"checkGenericWinner", "checkGenericWinner002"}

(***************************************************************************)
(* C14.  On a rows x cols board (rows, cols >= 1, length rows * cols) that *)
(* contains a run of K = min(rows, cols) equal marks, checkGenericWinner   *)
(* returns a mark, and that mark has a run; it is never null.              *)
(***************************************************************************)
C14_RunIsDetected ==
  (/\ IsDetectorCall
   /\ WellFormed(callArgs)
   /\ \E m \in Marks : HasRun(callArgs.board, callArgs.rows, callArgs.cols, m)) =>
    /\ callResult.value \in Marks
    /\ HasRun(callArgs.board, callArgs.rows, callArgs.cols, callResult.value)

(* a non-square board whose only run is a diagonal up-right *)
C14_Witness ==
  /\ callResult.fn = "checkGenericWinner002"
  /\ callArgs.rows = 2
  /\ callArgs.cols = 3
  /\ callArgs.board = [i \in 0..5 |-> IF i \in {2, 4} THEN "O"
                                      ELSE IF i \in {0, 5} THEN "X" ELSE null]
  /\ callResult.value = "O"

NoRun(a) ==
  \A m \in Marks : ~HasRun(a.board, a.rows, a.cols, m)

(***************************************************************************)
(* C15.  On a well-formed board the status is the draw status exactly when *)
(* no mark has a run and no cell is empty.  A full board without a run     *)
(* gets no winner from the detector and the score 0 from minimax; a board  *)
(* with a run gets the status of a win of a mark that has a run, full or   *)
(* not; a board with an empty cell and no run is in progress.              *)
(***************************************************************************)
C15_DrawIffFullWithoutRun ==
  WellFormed(callArgs) =>
    /\ callResult.fn = "status" =>
         /\ (callResult.value = <<"Game ended in a draw">>)
              <=> (NoRun(callArgs) /\ ~includesNull(callArgs.board))
         /\ ~NoRun(callArgs) =>
              /\ callResult.value[1] = "Winner: "
              /\ HasRun(callArgs.board, callArgs.rows, callArgs.cols,
                        callResult.value[2])
         /\ (NoRun(callArgs) /\ includesNull(callArgs.board)) =>
              callResult.value[1] = "Next player: "
    /\ (IsDetectorCall /\ NoRun(callArgs)) => callResult.value = null
    /\ (/\ callResult.fn \in {"minimax", "minimax002"}
        /\ NoRun(callArgs)
        /\ ~includesNull(callArgs.board)) => callResult.value = 0

(* a full 3 x 3 board on which both marks have a run *)
C15_Witness ==
  /\ callResult.fn = "status"
  /\ callArgs.rows = 3
  /\ callArgs.cols = 3
  /\ ~includesNull(callArgs.board)
  /\ HasRun(callArgs.board, 3, 3, "X")
  /\ HasRun(callArgs.board, 3, 3, "O")
  /\ callResult.value[1] = "Winner: "

(***************************************************************************)
(* C17.  When a dimension is below 1 or the length of the board is not     *)
(* rows * cols, the winner check returns null and reads no index outside   *)
(* the array.  (getCell of part_000 tests the index before every read.)    *)
(***************************************************************************)
C17_FailsClosed ==
  (IsDetectorCall /\ ~WellFormed(callArgs)) =>
    /\ callResult.value = null
    /\ callResult.fn = "checkGenericWinner002" =>
         ~readsOutsideFrom(callArgs.board, callArgs.rows, callArgs.cols, 0)

(* The same for checkGenericWinner of part_000 alone. *)
GuardedCheckFailsClosed ==
  (callResult.fn = "checkGenericWinner" /\ ~WellFormed(callArgs)) =>
    callResult.value = null

FirstMarked(board) ==
  CHOOSE i \in DOMAIN board :
    board[i] # null /\ \A j \in DOMAIN board : j < i => board[j] = null

(***************************************************************************)
(* C18.  On a well-formed board with one row or one column (K = 1) that    *)
(* holds a mark, the detector returns the mark of the first non-empty      *)
(* cell, and minimax scores the board +10 or -10 for that mark.            *)
(***************************************************************************)
C18_SingleMarkWins ==
  (/\ WellFormed(callArgs)
   /\ callArgs.rows = 1 \/ callArgs.cols = 1
   /\ NumMarks(callArgs.board) >= 1) =>
    /\ IsDetectorCall =>
         callResult.value = callArgs.board[FirstMarked(callArgs.board)]
    /\ callResult.fn \in {"minimax", "minimax002"} =>
         callResult.value =
           IF callArgs.board[FirstMarked(callArgs.board)] = "X" THEN 10 ELSE -10

C18_Witness ==
  /\ callResult.fn = "minimax"
  /\ callArgs.rows = 3
  /\ callArgs.cols = 1
  /\ callArgs.board = [i \in 0..2 |-> IF i = 1 THEN "O" ELSE null]
  /\ callArgs.player = "X"
  /\ callResult.value = -10

(***************************************************************************)
(* C19.  On the empty board of every size rows x cols (rows, cols >= 1)    *)
(* the detector returns null and the status is that of a game in progress, *)
(* the 1 x 1 board included; on the 1 x 1 board that holds a mark the      *)
(* detector returns that mark and the status is its win.                   *)
(***************************************************************************)
C19_EmptyBoardInProgress ==
  WellFormed(callArgs) =>
    /\ NumMarks(callArgs.board) = 0 =>
         /\ IsDetectorCall => callResult.value = null
         /\ callResult.fn = "status" =>
              callResult.value = <<"Next player: ", "X">>
    /\ (callArgs.rows = 1 /\ callArgs.cols = 1 /\ callArgs.board[0] # null) =>
         /\ IsDetectorCall => callResult.value = callArgs.board[0]
         /\ callResult.fn = "status" =>
              callResult.value = <<"Winner: ", callArgs.board[0]>>

C19_Witness ==
  /\ callResult.fn = "status"
  /\ callArgs.rows = 1
  /\ callArgs.cols = 1
  /\ callArgs.board[0] = "O"
  /\ callResult.value = <<"Winner: ", "O">>

(***************************************************************************)
(* part_002: the Game component on a rows x cols board.  squares is        *)
(* history[currentMove]; timer holds the board that a pending setTimeout   *)
(* callback will hand to handlePlay.  As in the specification of App.js,   *)
(* every handler is followed by the re-render and the effect, and this     *)
(* specification follows one game: the size of the board was set before    *)
(* the first move (handleSizeChange leaves an empty board, move 0 and      *)
(* human "X"), the swap button is pressed only while no computer move is   *)
(* pending, and the reset button and the move list are not used.  The      *)
(* sizes are those with sides of at most MaxSide and at most MaxGameCells  *)
(* cells.                                                                  *)
(***************************************************************************)
MaxGameCells == 6

GameSizes ==
  {sz \in (1..MaxSide) \X (1..MaxSide) : sz[1] * sz[2] <= MaxGameCells}

scheduleMove002(sq, side, bestIndex) ==
  IF bestIndex # nullMove THEN << [sq EXCEPT ![bestIndex] = side] >> ELSE << >>

autoPlayEffect002(sq, rows_, cols_, move, human) ==
  IF checkGenericWinner002(sq, rows_, cols_) # null \/ ~includesNull(sq)
  THEN << >>
  ELSE IF human # currentPlayerAt(move)
       THEN scheduleMove002(sq, currentPlayerAt(move),
              findBestMoveGeneric(sq, rows_, cols_, currentPlayerAt(move), FALSE))
  ELSE << >>

(* handlePlay(nextBoard), then the effect *)
handlePlay002(nextBoard) ==
  /\ squares' = nextBoard
  /\ currentMove' = currentMove + 1
  /\ timer' = autoPlayEffect002(nextBoard, rows, cols, currentMove + 1,
                                humanPlayer)

(* handleClick without the test of winner *)
handleClick002NoWinnerTest(index) ==
  /\ index \in DOMAIN squares
  /\ squares[index] = null
  /\ humanPlayer = currentPlayerAt(currentMove)
  /\ handlePlay002([squares EXCEPT ![index] = currentPlayerAt(currentMove)])
  /\ UNCHANGED <<humanPlayer, engineOnly, callVars, searchVars, sizeVars, history,
                 engineTable>>

(* Board.handleClick(index) *)
handleClick002(index) ==
  /\ index \in DOMAIN squares
  /\ checkGenericWinner002(squares, rows, cols) = null
  /\ squares[index] = null
  /\ humanPlayer = currentPlayerAt(currentMove)
  /\ handlePlay002([squares EXCEPT ![index] = currentPlayerAt(currentMove)])
  /\ UNCHANGED <<humanPlayer, engineOnly, callVars, searchVars, sizeVars, history,
                 engineTable>>

(* the setTimeout callback: handlePlay(boardCopy) *)
timerFires002 ==
  /\ timer # << >>
  /\ handlePlay002(timer[1])
  /\ UNCHANGED <<humanPlayer, engineOnly, callVars, searchVars, sizeVars, history,
                 engineTable>>

handleSwapPlayers002 ==
  /\ timer = << >>
  /\ humanPlayer' = Other(humanPlayer)
  /\ timer' = autoPlayEffect002(squares, rows, cols, currentMove,
                                Other(humanPlayer))
  /\ UNCHANGED <<squares, currentMove, engineOnly, callVars, searchVars,
                 sizeVars, history, engineTable>>

Game002Init ==
  /\ \E sz \in GameSizes :
       /\ rows = sz[1]
       /\ cols = sz[2]
       /\ squares = emptyGrid(sz[1] * sz[2])
  /\ currentMove = 0
  /\ humanPlayer = "X"
  /\ timer = << >>
  /\ engineOnly = [p \in Marks |-> TRUE]
  /\ history = << emptyBoard >>
  /\ TableIdle
  /\ CallIdle
  /\ SearchIdle

Game002Next ==
  \/ \E index \in 0..(MaxGameCells - 1) : handleClick002(index)
  \/ timerFires002
  \/ handleSwapPlayers002

Game002Spec == Game002Init /\ [][Game002Next]_vars

(***************************************************************************)
(* C16.  On every board of a game played by alternating legal moves from   *)
(* the empty rows x cols board, at most one mark has a run of              *)
(* K = min(rows, cols); the detector returns that mark, or null when no    *)
(* mark has a run, whatever the order of its scan.                         *)
(***************************************************************************)
C16_AtMostOneWinner ==
  /\ ~(HasRun(squares, rows, cols, "X") /\ HasRun(squares, rows, cols, "O"))
  /\ \A m \in Marks :
       (checkGenericWinner002(squares, rows, cols) = m)
         <=> HasRun(squares, rows, cols, m)

(* O has completed a run on a non-square board after X could not *)
C16_Witness ==
  /\ rows # cols
  /\ rows > 1
  /\ cols > 1
  /\ currentMove >= 4
  /\ HasRun(squares, rows, cols, "O")
  /\ checkGenericWinner002(squares, rows, cols) = "O"

(***************************************************************************)
(* part_000: the Game component whose board can be resized in mid-play.    *)
(* Here squares is the state board and currentMove the state moveCount.    *)
(* timer is the queue of the pending setTimeout callbacks, the oldest      *)
(* first (all have the same delay); a callback is the closure made by the  *)
(* render in which the effect ran: it holds boardCopy and that render's    *)
(* moveCount, which handleMove reads.  Nothing cancels a callback.         *)
(*                                                                         *)
(* Every handler is followed by the re-render and by the effect: each      *)
(* handler changes board or humanPlayer, which the effect depends on.      *)
(* The three state updates of handleSizeChange are applied in one render.  *)
(*                                                                         *)
(* The sizes are those with sides of at most MaxSide and at most           *)
(* MaxResizeCells cells.  The initial size 3 x 3 is replaced by one of     *)
(* them before the first move: handleSizeChange on the initial state       *)
(* leaves an empty board of that size, moveCount 0, human "X" and no       *)
(* callback.  At most MaxPending callbacks are pending and                 *)
(* moveCount is at most MaxMoveCount.  No cell ever holds undefined: a     *)
(* click on a rendered square that has no cell in the array, and a         *)
(* resize whose copy loop would read outside the array, both possible      *)
(* only once the array and the dimensions disagree, are left out.          *)
(***************************************************************************)
MaxResizeCells == 4
MaxPending == 1
MaxMoveCount == 4

ResizeSizes ==
  {sz \in (1..MaxSide) \X (1..MaxSide) : sz[1] * sz[2] <= MaxResizeCells}

(* remapBoard: the cell (r, c) of the new board *)
remapCell(oldSquares, oldRows, oldCols, newRows, newCols, r, c) ==
  IF r < Min(oldRows, newRows) /\ c < Min(oldCols, newCols)
  THEN oldSquares[r * oldCols + c]
  ELSE null

remapBoard(oldSquares, oldRows, oldCols, newRows, newCols) ==
  [newIndex \in 0..(newRows * newCols - 1) |->
     remapCell(oldSquares, oldRows, oldCols, newRows, newCols,
               newIndex \div newCols, newIndex % newCols)]

(* the reads oldSquares[oldIndex] of remapBoard stay inside the array *)
remapReadsInside(oldSquares, oldRows, oldCols, newRows, newCols) ==
  \A r \in 0..(Min(oldRows, newRows) - 1), c \in 0..(Min(oldCols, newCols) - 1) :
    r * oldCols + c \in DOMAIN oldSquares

(* the effect: the callbacks it adds to the queue *)
aiEffect000(sq, rows_, cols_, count, human) ==
  IF checkGenericWinner(sq, rows_, cols_) # null \/ ~includesNull(sq)
  THEN << >>
  ELSE IF human # currentPlayerAt(count)
       THEN IF findBestMoveGeneric(sq, rows_, cols_, currentPlayerAt(count), TRUE)
                 # nullMove
            THEN << [board |-> [sq EXCEPT
                       ![findBestMoveGeneric(sq, rows_, cols_,
                                             currentPlayerAt(count), TRUE)]
                          = currentPlayerAt(count)],
                     moveCount |-> count] >>
            ELSE << >>
  ELSE << >>

(* handleMove(nextBoard) of the render in which moveCount was count, then  *)
(* the effect; pending is the queue without the callback that is running   *)
handleMove(nextBoard, count, pending) ==
  /\ count + 1 <= MaxMoveCount
  /\ squares' = nextBoard
  /\ currentMove' = count + 1
  /\ timer' = pending \o aiEffect000(nextBoard, rows, cols, count + 1,
                                     humanPlayer)
  /\ Len(timer') <= MaxPending

(* Board.handleClick(index) *)
handleClick000(index) ==
  /\ index \in 0..(rows * cols - 1)
  /\ index \in DOMAIN squares
  /\ checkGenericWinner(squares, rows, cols) = null
  /\ squares[index] = null
  /\ humanPlayer = currentPlayerAt(currentMove)
  /\ handleMove([squares EXCEPT ![index] = currentPlayerAt(currentMove)],
                currentMove, timer)
  /\ UNCHANGED <<humanPlayer, engineOnly, callVars, searchVars, sizeVars, history,
                 engineTable>>

(* the setTimeout callback: handleMove(boardCopy) *)
timerFires000 ==
  /\ timer # << >>
  /\ handleMove(timer[1].board, timer[1].moveCount, Tail(timer))
  /\ UNCHANGED <<humanPlayer, engineOnly, callVars, searchVars, sizeVars, history,
                 engineTable>>

handleSizeChange(newRows, newCols) ==
  /\ remapReadsInside(squares, rows, cols, newRows, newCols)
  /\ rows' = newRows
  /\ cols' = newCols
  /\ squares' = remapBoard(squares, rows, cols, newRows, newCols)
  /\ timer' = timer \o aiEffect000(squares', newRows, newCols, currentMove,
                                   humanPlayer)
  /\ Len(timer') <= MaxPending
  /\ UNCHANGED <<currentMove, humanPlayer, engineOnly, callVars, searchVars,
                 history, engineTable>>

resetGame000 ==
  /\ squares' = emptyGrid(rows * cols)
  /\ currentMove' = 0
  /\ timer' = timer \o aiEffect000(emptyGrid(rows * cols), rows, cols, 0,
                                   humanPlayer)
  /\ Len(timer') <= MaxPending
  /\ UNCHANGED <<humanPlayer, engineOnly, callVars, searchVars, sizeVars, history,
                 engineTable>>

handleSwapPlayers000 ==
  /\ humanPlayer' = Other(humanPlayer)
  /\ timer' = timer \o aiEffect000(squares, rows, cols, currentMove,
                                   Other(humanPlayer))
  /\ Len(timer') <= MaxPending
  /\ UNCHANGED <<squares, currentMove, engineOnly, callVars, searchVars,
                 sizeVars, history, engineTable>>

Game000Init ==
  /\ \E sz \in ResizeSizes :
       /\ rows = sz[1]
       /\ cols = sz[2]
       /\ squares = emptyGrid(sz[1] * sz[2])
  /\ currentMove = 0
  /\ humanPlayer = "X"
  /\ timer = << >>
  /\ engineOnly = [p \in Marks |-> TRUE]
  /\ history = << emptyBoard >>
  /\ TableIdle
  /\ CallIdle
  /\ SearchIdle

Game000Next ==
  \/ \E index \in 0..(MaxResizeCells - 1) : handleClick000(index)
  \/ timerFires000
  \/ \E sz \in ResizeSizes : handleSizeChange(sz[1], sz[2])
  \/ resetGame000
  \/ handleSwapPlayers000

Game000Spec == Game000Init /\ [][Game000Next]_vars

(***************************************************************************)
(* C20.  In every reachable state of the resizable game the length of the  *)
(* current board is rows * cols.                                           *)
(***************************************************************************)
C20_LengthIsRowsTimesCols ==
  length(squares) = rows * cols

(***************************************************************************)
(* The search under fair scheduling: the engine is synchronous, a call     *)
(* that can take a step takes it.                                          *)
(***************************************************************************)
SearchLiveSpec == SearchSpec /\ WF_vars(SearchNext)

TrialsInProgress ==
  Cardinality({n \in 1..Len(stack) : stack[n].pc \in {"waiting", "placed"}})

(* the number of empty cells of the board the call of frame n was made on: *)
(* the calls below it each hold one trial mark                             *)
EmptyAtCall(n) == Cardinality(EmptyCells(searchArgs.board)) - (n - 1)

(***************************************************************************)
(* C21.  Every call of findBestMove (App.js and part_000) and of           *)
(* winningMove returns: the stack of calls becomes empty.  Until then      *)
(* every call below the innermost one waits on one trial mark, so the      *)
(* board of each recursive minimax call has one empty cell fewer than its  *)
(* caller's; the array never has fewer than zero empty cells, so at most   *)
(* as many minimax calls are nested as the board passed in has empty       *)
(* cells, and the depth argument of each is its nesting level.             *)
(***************************************************************************)
C21_SearchTerminates ==
  /\ [](/\ \A n \in 1..(Len(stack) - 1) : stack[n].pc = "waiting"
        /\ Cardinality(EmptyCells(searchBoard))
             = Cardinality(EmptyCells(searchArgs.board)) - TrialsInProgress
        /\ \A n \in 2..Len(stack) :
             /\ stack[n].fn = "minimax"
             /\ stack[n].depth = n - 2
             /\ EmptyAtCall(n) >= 0
             /\ EmptyAtCall(n) < EmptyAtCall(n - 1)
        /\ Len(stack) <= Cardinality(EmptyCells(searchArgs.board)) + 1)
  /\ <>(stack = << >>)

(* the recursion of part_000 at its greatest depth: as many minimax calls  *)
(* as the board passed in has empty cells, the innermost on a full board   *)
C21_Witness ==
  /\ searchArgs.fn = "findBestMove000"
  /\ Cardinality(EmptyCells(searchArgs.board)) = 2
  /\ Len(stack) = 3
  /\ top.pc = "enter"
  /\ ~includesNull(searchBoard)

(***************************************************************************)
(* A run inside the grid, for any arguments: K = min(rows, cols) cells     *)
(* (r, c), (r + dr, c + dc), ... that all lie in rows 0..rows-1 and        *)
(* columns 0..cols-1, exist in the array and hold the mark.                *)
(***************************************************************************)
RunInside(board, rows_, cols_, mark) ==
  \E r \in 0..(rows_ - 1), c \in 0..(cols_ - 1), st \in lineSteps :
    \A o \in 0..(Min(rows_, cols_) - 1) :
      /\ r + o * st[1] \in 0..(rows_ - 1)
      /\ c + o * st[2] \in 0..(cols_ - 1)
      /\ (r + o * st[1]) * cols_ + c + o * st[2] \in DOMAIN board
      /\ board[(r + o * st[1]) * cols_ + c + o * st[2]] = mark

(***************************************************************************)
(* C22.  What checkGenericWinner (part_000 and part_002) returns is null   *)
(* or a mark that occupies K = min(rows, cols) consecutive cells of one    *)
(* row, column or diagonal inside the grid: no count runs from the last    *)
(* column of a row into the next row or around an edge, on square and      *)
(* non-square boards.                                                      *)
(***************************************************************************)
C22_ReturnedMarkHasRun ==
  (IsDetectorCall /\ callResult.value # null) =>
    /\ callResult.value \in Marks
    /\ RunInside(callArgs.board, callArgs.rows, callArgs.cols, callResult.value)

(* a 2 x 3 board whose only two X are the last cell of row 0 and the first *)
(* cell of row 1, adjacent in the array: no winner                         *)
C22_Witness ==
  /\ IsDetectorCall
  /\ callArgs.rows = 2
  /\ callArgs.cols = 3
  /\ callArgs.board = [i \in 0..5 |-> IF i \in {2, 3} THEN "X" ELSE null]
  /\ callResult.value = null

(***************************************************************************)
(* C23.  On every 3 x 3 board over {X, O, null} checkWinner,               *)
(* calculateWinner and checkGenericWinner(board, 3, 3) (part_000 and       *)
(* part_002) are all null or all a mark, a mark exactly when some mark has *)
(* three in a row; and when only one mark has three in a row all return    *)
(* that mark.                                                              *)
(***************************************************************************)
C23_WinnerChecksAgree ==
  callResult.fn = "winnerChecks" =>
    /\ \A f \in DOMAIN callResult.value :
         /\ callResult.value[f] \in Marks \cup {null}
         /\ (callResult.value[f] # null)
              <=> (\E m \in Marks : HasLine(callArgs.board, m))
    /\ \A m \in Marks :
         (HasLine(callArgs.board, m) /\ ~HasLine(callArgs.board, Other(m))) =>
           \A f \in DOMAIN callResult.value : callResult.value[f] = m

(* both marks have a row: the line table finds X first, the regular        *)
(* expression O                                                            *)
C23_Witness ==
  /\ callResult.fn = "winnerChecks"
  /\ callResult.value.checkWinner = "X"
  /\ callResult.value.calculateWinner = "O"
  /\ callResult.value.checkGenericWinner = "X"

(***************************************************************************)
(* The rule of the heuristic move, written from its description: the cells *)
(* whose filling with a mark gives that mark three in a row, and the first *)
(* empty cell of the order 4, 0, 2, 6, 8, 1, 3, 5, 7.                      *)
(***************************************************************************)
WinCells(board, mark) ==
  {i \in EmptyCells(board) : HasLine([board EXCEPT ![i] = mark], mark)}

FirstByPriority(board) ==
  moveOrder[SetMin({n \in 1..Len(moveOrder) : board[moveOrder[n]] = null})]

HeuristicRule(board) ==
  IF WinCells(board, "O") # {} THEN SetMin(WinCells(board, "O"))
  ELSE IF WinCells(board, "X") # {} THEN SetMin(WinCells(board, "X"))
  ELSE IF EmptyCells(board) # {} THEN FirstByPriority(board)
  ELSE nullMove

(***************************************************************************)
(* C24.  As stated, on every board: the heuristic findBestMove returns the *)
(* lowest-index empty cell that gives O three in a row, else the           *)
(* lowest-index empty cell that would give X three in a row, else the      *)
(* first empty cell of the fixed order, and null exactly when no cell is   *)
(* empty.                                                                  *)
(***************************************************************************)
C24_WinBlockThenPriority ==
  callResult.fn = "findBestMoveHeuristic" =>
    /\ callResult.value = HeuristicRule(callArgs.board)
    /\ (callResult.value = nullMove) <=> (EmptyCells(callArgs.board) = {})

(* C24, amended: the same on every board on which no mark has three in a   *)
(* row yet (the boards the Game passes); on every board, null exactly when *)
(* no cell is empty.                                                       *)
C24_WinBlockThenPriorityUndecided ==
  callResult.fn = "findBestMoveHeuristic" =>
    /\ (~HasLine(callArgs.board, "X") /\ ~HasLine(callArgs.board, "O")) =>
         callResult.value = HeuristicRule(callArgs.board)
    /\ (callResult.value = nullMove) <=> (EmptyCells(callArgs.board) = {})

(* a block: O has no winning cell, X has one, and the centre is empty *)
C24_Witness ==
  /\ callResult.fn = "findBestMoveHeuristic"
  /\ ~HasLine(callArgs.board, "X")
  /\ ~HasLine(callArgs.board, "O")
  /\ WinCells(callArgs.board, "O") = {}
  /\ Cardinality(WinCells(callArgs.board, "X")) >= 2
  /\ callArgs.board[4] = null
  /\ callResult.value = SetMin(WinCells(callArgs.board, "X"))
  /\ callResult.value # 4

(***************************************************************************)
(* App.js: the Game component with its move history, the move list and the *)
(* reset button.  history is the state history (entry k of the array is    *)
(* history[k + 1]), squares is currentSquares = history[currentMove].      *)
(* timer is the queue of the pending setTimeout callbacks, the oldest      *)
(* first (all have the same delay).  A callback calls the handlePlay of    *)
(* the render in which the effect ran: it holds squaresCopy and that       *)
(* render's history and currentMove.  Nothing cancels a callback.          *)
(*                                                                         *)
(* Every handler is followed by the re-render and, when xIsNext,           *)
(* currentSquares or humanPlayer changed, by the effect.  handlePlay and   *)
(* resetGame always install a new array as currentSquares; jumpTo changes  *)
(* currentSquares exactly when it goes to another move.                    *)
(*                                                                         *)
(* At most MaxHistoryMoves moves are in the history, at most MaxTimers     *)
(* callbacks are pending, and the human clicks the cells 0..MaxClickCell   *)
(* (the computer moves to any cell).  EngineCalls are the calls of         *)
(* findBestMove the effect can make within these bounds; the variable      *)
(* engineTable holds their results from the start and never changes, so    *)
(* that each is computed once.                                             *)
(***************************************************************************)
MaxHistoryMoves == 2
MaxTimers == 1
MaxClickCell == 4

EngineCalls ==
  {<<b, sideToMove(b)>> :
     b \in {c \in [Cells -> CellValues] :
              /\ NumMarks(c) <= MaxHistoryMoves
              /\ NumOf(c, "X") - NumOf(c, "O") \in {0, 1}}}

(* findBestMove(squaresCopy, side) *)
engineMove(board, side) ==
  IF <<board, side>> \in DOMAIN engineTable THEN engineTable[<<board, side>>]
  ELSE findBestMove(board, side)

currentSquaresOf(hist, move) == hist[move + 1]

(* the callback the effect schedules for the computer's side *)
scheduleMoveHistory(hist, move, side, bestIndex) ==
  IF bestIndex # nullMove
  THEN << [squaresCopy |-> [currentSquaresOf(hist, move) EXCEPT ![bestIndex] = side],
           history |-> hist, currentMove |-> move] >>
  ELSE << >>

(* the effect of the render with history hist, currentMove move and        *)
(* humanPlayer human: the callbacks it adds to the queue                   *)
autoPlayEffectHistory(hist, move, human) ==
  IF \/ calculateWinner(currentSquaresOf(hist, move)) # null
     \/ ~includesNull(currentSquaresOf(hist, move))
  THEN << >>
  ELSE IF xIsNext(move) /\ human # "X"
       THEN scheduleMoveHistory(hist, move, "X",
              engineMove(currentSquaresOf(hist, move), "X"))
  ELSE IF ~xIsNext(move) /\ human # "O"
       THEN scheduleMoveHistory(hist, move, "O",
              engineMove(currentSquaresOf(hist, move), "O"))
  ELSE << >>

(* handlePlayHistory without history.slice(0, currentMove + 1): the new    *)
(* board is appended to the whole history                                  *)
handlePlayHistoryNoSlice(nextSquares, hist, move, pending) ==
  /\ Len(hist) <= MaxHistoryMoves
  /\ history' = hist \o << nextSquares >>
  /\ currentMove' = Len(history') - 1
  /\ squares' = nextSquares
  /\ timer' = pending \o autoPlayEffectHistory(history', currentMove',
                                               humanPlayer)
  /\ Len(timer') <= MaxTimers

(* handlePlay(nextSquares) of the render with history hist and currentMove *)
(* move, then the effect; pending is the queue without the callback that   *)
(* is running                                                              *)
handlePlayHistory(nextSquares, hist, move, pending) ==
  /\ move + 1 <= MaxHistoryMoves
  /\ history' = SubSeq(hist, 1, move + 1) \o << nextSquares >>
  /\ currentMove' = Len(history') - 1
  /\ squares' = nextSquares
  /\ timer' = pending \o autoPlayEffectHistory(history', currentMove',
                                               humanPlayer)
  /\ Len(timer') <= MaxTimers

(* Board.handleClick(i) *)
handleClickHistory(i) ==
  /\ checkWinner(squares) = null
  /\ squares[i] = null
  /\ humanPlayer = currentPlayerAt(currentMove)
  /\ handlePlayHistory([squares EXCEPT ![i] = currentPlayerAt(currentMove)],
                       history, currentMove, timer)
  /\ UNCHANGED <<humanPlayer, engineOnly, callVars, searchVars, sizeVars,
                 engineTable>>

(* the setTimeout callback: handlePlay(squaresCopy) *)
timerFiresHistory ==
  /\ timer # << >>
  /\ handlePlayHistory(timer[1].squaresCopy, timer[1].history,
                       timer[1].currentMove, Tail(timer))
  /\ UNCHANGED <<humanPlayer, engineOnly, callVars, searchVars, sizeVars,
                 engineTable>>

jumpTo(moveIndex) ==
  /\ moveIndex \in 0..(Len(history) - 1)
  /\ currentMove' = moveIndex
  /\ squares' = currentSquaresOf(history, moveIndex)
  /\ timer' = timer \o (IF moveIndex # currentMove
                         THEN autoPlayEffectHistory(history, moveIndex,
                                                    humanPlayer)
                         ELSE << >>)
  /\ Len(timer') <= MaxTimers
  /\ UNCHANGED <<history, humanPlayer, engineOnly, callVars, searchVars,
                 sizeVars, engineTable>>

resetGame ==
  /\ history' = << emptyBoard >>
  /\ currentMove' = 0
  /\ squares' = emptyBoard
  /\ timer' = timer \o autoPlayEffectHistory(<< emptyBoard >>, 0, humanPlayer)
  /\ Len(timer') <= MaxTimers
  /\ UNCHANGED <<humanPlayer, engineOnly, callVars, searchVars, sizeVars,
                 engineTable>>

handleSwapPlayersHistory ==
  /\ humanPlayer' = Other(humanPlayer)
  /\ timer' = timer \o autoPlayEffectHistory(history, currentMove,
                                             Other(humanPlayer))
  /\ Len(timer') <= MaxTimers
  /\ UNCHANGED <<history, squares, currentMove, engineOnly, callVars,
                 searchVars, sizeVars, engineTable>>

HistoryNext ==
  \/ \E i \in 0..MaxClickCell : handleClickHistory(i)
  \/ timerFiresHistory
  \/ \E moveIndex \in 0..MaxHistoryMoves : jumpTo(moveIndex)
  \/ resetGame
  \/ handleSwapPlayersHistory

HistoryInit ==
  /\ GameInit
  /\ CallIdle
  /\ SearchIdle
  /\ SizeIdle
  /\ engineTable = [a \in EngineCalls |-> findBestMove(a[1], a[2])]

HistorySpec == HistoryInit /\ [][HistoryNext]_vars

(***************************************************************************)
(* C25.  In the game of App.js a click on cell i can change nothing (the   *)
(* handler has no step) when the current board has a winner, when cell i   *)
(* is occupied, or when the side to move is not the human's.  A click that *)
(* acts appends to the history a board equal to the current one except     *)
(* that cell i holds the mark of the side to move and makes it the current *)
(* board; the board it was given is still entry currentMove of the         *)
(* history, unchanged, and humanPlayer is unchanged.                       *)
(***************************************************************************)
ClickIgnored(i) ==
  \/ checkWinner(squares) # null
  \/ squares[i] # null
  \/ humanPlayer # currentPlayerAt(currentMove)

C25_ClickFrame ==
  /\ [](/\ squares = history[currentMove + 1]
        /\ \A i \in Cells : ClickIgnored(i) => ~ENABLED handleClick(i))
  /\ [][\A i \in Cells : handleClick(i) =>
          /\ ~ClickIgnored(i)
          /\ squares' = [squares EXCEPT ![i] = currentPlayerAt(currentMove)]
          /\ squares'[i] = humanPlayer
          /\ history' = Append(history, squares')
          /\ history'[currentMove + 1] = squares
          /\ currentMove' = currentMove + 1
          /\ humanPlayer' = humanPlayer]_vars

(* the board has a winner and an empty cell, and the human's side is to    *)
(* move: only the winner makes the click ignored                           *)
C25_Witness ==
  /\ checkWinner(squares) # null
  /\ humanPlayer = currentPlayerAt(currentMove)
  /\ \E i \in Cells : squares[i] = null
  /\ Len(history) = currentMove + 1
  /\ timer = << >>

(***************************************************************************)
(* C26.  In the game with history, in every reachable state: currentMove   *)
(* is an index of the history; entry k holds exactly k marks, ceil(k/2) X  *)
(* and floor(k/2) O; entry k + 1 is entry k with one empty cell filled by  *)
(* the mark of the side that moves at k; so the side to move derived from  *)
(* currentMove has at most as many marks on the current board as the       *)
(* other side.                                                             *)
(***************************************************************************)
C26_HistoryCounts ==
  /\ currentMove \in 0..(Len(history) - 1)
  /\ squares = history[currentMove + 1]
  /\ \A k \in 0..(Len(history) - 1) :
       /\ NumMarks(history[k + 1]) = k
       /\ NumOf(history[k + 1], "X") = (k + 1) \div 2
       /\ NumOf(history[k + 1], "O") = k \div 2
  /\ \A k \in 0..(Len(history) - 2) :
       \E i \in Cells :
         /\ history[k + 1][i] = null
         /\ history[k + 2] = [history[k + 1] EXCEPT ![i] = currentPlayerAt(k)]
  /\ NumOf(squares, currentPlayerAt(currentMove))
       <= NumOf(squares, Other(currentPlayerAt(currentMove)))

(* after a jump back to the start and a swap: two later moves are still in *)
(* the history and a computer move for X on the empty board is pending     *)
C26_Witness ==
  /\ Len(history) = 3
  /\ currentMove = 0
  /\ humanPlayer = "O"
  /\ timer # << >>
  /\ timer[1].currentMove = 0

(***************************************************************************)
(* C27.  When a setTimeout callback runs, the state is the one its move    *)
(* was computed from: the history and currentMove are those of the render  *)
(* that scheduled it, and the side to move is not the human's.             *)
(***************************************************************************)
C27_MoveAppliedToItsState ==
  [][timerFiresHistory =>
       /\ timer[1].history = history
       /\ timer[1].currentMove = currentMove
       /\ humanPlayer # currentPlayerAt(currentMove)]_vars
====
